---------------------------- MODULE Spec2Model ----------------------------
(***************************************************************************)
(* A model of the AFEM/ASAP facade layer over the OpenCASCADE kernel:      *)
(*   - asap/structure/methods/split_parts.py : split_part                  *)
(*   - afem/structure/fix.py                 : FixAssembly                 *)
(*   - afem/topology/entities.py             : Shape, typed shapes, BBox   *)
(* The kernel (GEOMAlgo_Splitter, TopoDS_Shape, Bnd_Box, ...) is the       *)
(* environment: what it returns is a nondeterministic choice, what it is   *)
(* asked to do is recorded in the trace of the call.                       *)
(***************************************************************************)
EXTENDS Integers, Sequences, FiniteSets, TLC

VARIABLES
    objShape,     \* split_part: the shape handle held by each part object
    splitCall,    \* split_part: record of the last call (inputs, kernel trace, result)
    active,       \* AssemblyAPI: the active assembly, or None
    assyParts,    \* Assembly: the parts of each assembly
    partShape,    \* Part: the shape of each part
    fixCall,      \* FixAssembly: record of the last call (inputs, trace, outcome)
    shapeIn,      \* Shape: the kernel handles at hand
    shapeCall,    \* Shape: record of the last constructor, wrap or comparison
    bbox,         \* BBox: the kernel box (void flag, corners, gap)
    bboxAdded,    \* BBox: whether geometry has been added to the box
    bboxCall,     \* BBox: record of the last method call
    explored,     \* Shape: the sub-shapes a kernel explorer yields, in order
    subCall       \* Shape: record of the last sub-shape accessor call

splitVars == <<objShape, splitCall>>
fixVars == <<active, assyParts, partShape, fixCall>>
shapeVars == <<shapeIn, shapeCall>>
bboxVars == <<bbox, bboxAdded, bboxCall>>
subVars == <<explored, subCall>>
otherThanBBox == <<objShape, splitCall, active, assyParts, partShape, fixCall,
                   shapeIn, shapeCall, explored, subCall>>
vars == <<objShape, splitCall, active, assyParts, partShape, fixCall,
          shapeIn, shapeCall, bbox, bboxAdded, bboxCall, explored, subCall>>

None == "None"

(***************************************************************************)
(* Bounds                                                                  *)
(***************************************************************************)
NObjs == 2          \* part objects that can be handed to split_part
MaxShape == 2       \* non-null shape handles are 1..MaxShape, 0 is the null handle
MaxErr == 2         \* GEOMAlgo_Splitter.ErrorStatus() ranges over 0..MaxErr
NParts == 2         \* parts that assemblies are made of
MaxTShape == 1      \* kernel TShapes of each type are numbered 1..MaxTShape
MaxLoc == 1         \* kernel locations are 0..MaxLoc
MaxCoord == 1       \* coordinates of points are 0..MaxCoord
MaxGap == 1         \* gaps and tolerances given to a box are -MaxGap..MaxGap
MaxTol == 1         \* tolerances of sub-shapes and tolerance targets are 0..MaxTol
MaxExplore == 3     \* a kernel explorer yields at most MaxExplore sub-shapes

(***************************************************************************)
(* split_part (asap/structure/methods/split_parts.py)                      *)
(***************************************************************************)
Objs == 1..NObjs
NullShape == 0
Shapes == 1..MaxShape
Handles == {NullShape} \cup Shapes
ErrorStatuses == 0..MaxErr

\* TopoDS_Shape.IsNull() of the handle held by an object
IsNull(h) == h = NullShape

\* one call made on the splitting operator or on the reshape collaborator
Ev(op, args) == [op |-> op, args |-> args]

\* line 10: if part.IsNull() or splitter.IsNull()
EitherNullMutAnd(partHandle, splitterHandle) ==
    IsNull(partHandle) /\ IsNull(splitterHandle)
EitherNull(partHandle, splitterHandle) ==
    IsNull(partHandle) \/ IsNull(splitterHandle)

\* lines 14-19: construct the operator, register the part, then the splitter
\* as an argument (split_both) or as a tool
RegisterMutAlwaysArgument(part, splitter, split_both) ==
    << Ev("GEOMAlgo_Splitter", <<>>), Ev("AddArgument", <<part>>),
       Ev("AddArgument", <<splitter>>) >>
Register(part, splitter, split_both) ==
    << Ev("GEOMAlgo_Splitter", <<>>), Ev("AddArgument", <<part>>) >>
    \o (IF split_both THEN << Ev("AddArgument", <<splitter>>) >>
                      ELSE << Ev("AddTool", <<splitter>>) >>)

\* lines 20-21: Perform(), then read ErrorStatus()
Execute == << Ev("Perform", <<>>), Ev("ErrorStatus", <<>>) >>

\* line 21: if geom_split.ErrorStatus() != 0
SplitFailedMutOnlyOne(err) == err = 1
SplitFailed(err) == err # 0

\* lines 25-27: the objects handed to reshape_parts
ReshapeTargetsMutBoth(part, splitter, split_both) == <<part, splitter>>
ReshapeTargets(part, splitter, split_both) ==
    IF split_both THEN <<part, splitter>> ELSE <<part>>

Range(s) == {s[i] : i \in 1..Len(s)}

\* reshape_parts(geom_split, objs): every listed object gets the shape the
\* kernel's history maps its shape to; the others are left alone
reshape_parts(shapes, targets, new) ==
    [o \in Objs |-> IF o \in Range(targets) THEN new[o] ELSE shapes[o]]

\* err and reshapeRet of a call record hold what was read from the kernel and
\* from reshape_parts: <<>> when the call never got that far, else <<value>>
NoObjShape == [o \in Objs |-> NullShape]
NoSplitCall ==
    [op |-> "none", part |-> 1, splitter |-> 1, split_both |-> FALSE,
     partNull |-> FALSE, splitterNull |-> FALSE, err |-> <<>>,
     trace |-> <<>>, reshapeRet |-> <<>>, result |-> None]

SplitRecord(part, splitter, split_both, err, trace, reshapeRet, result) ==
    [op |-> "split_part", part |-> part, splitter |-> splitter,
     split_both |-> split_both,
     partNull |-> IsNull(objShape[part]),
     splitterNull |-> IsNull(objShape[splitter]),
     err |-> err, trace |-> trace, reshapeRet |-> reshapeRet, result |-> result]

split_part(part, splitter, split_both) ==
    /\ UNCHANGED <<fixVars, shapeVars, bboxVars, subVars>>
    /\ IF EitherNull(objShape[part], objShape[splitter])
       THEN /\ splitCall' = SplitRecord(part, splitter, split_both, <<>>, <<>>, <<>>, FALSE)
            /\ UNCHANGED objShape
       ELSE \E err \in ErrorStatuses :
              LET split == Register(part, splitter, split_both) \o Execute IN
              IF SplitFailed(err)
              THEN /\ splitCall' = SplitRecord(part, splitter, split_both, <<err>>,
                                               split, <<>>, FALSE)
                   /\ UNCHANGED objShape
              ELSE LET targets == ReshapeTargets(part, splitter, split_both) IN
                   \E new \in [Range(targets) -> Shapes], ret \in BOOLEAN :
                     /\ objShape' = reshape_parts(objShape, targets, new)
                     /\ splitCall' = SplitRecord(part, splitter, split_both, <<err>>,
                                         split \o << Ev("reshape_parts", targets) >>,
                                         <<ret>>, ret)

SplitPart == \E part \in Objs, splitter \in Objs, split_both \in BOOLEAN :
                split_part(part, splitter, split_both)

(***************************************************************************)
(* Claims about split_part                                                 *)
(***************************************************************************)
SplitCalled == splitCall.op = "split_part"
TraceOps(op) == {i \in DOMAIN splitCall.trace : splitCall.trace[i].op = op}

\* C1: a split_part call whose part or splitter is a null handle returns
\* False at once, for either value of split_both: no splitting operator is
\* constructed, nothing is registered, Perform is not invoked and
\* reshape_parts is not called (the trace of the call is empty).
C1_NullInputFails ==
    (SplitCalled /\ (splitCall.partNull \/ splitCall.splitterNull))
        => /\ splitCall.result = FALSE
           /\ splitCall.trace = <<>>
           /\ splitCall.err = <<>>
           /\ splitCall.reshapeRet = <<>>

C1_Witness ==
    /\ SplitCalled
    /\ ~splitCall.partNull /\ splitCall.splitterNull
    /\ ~splitCall.split_both
    /\ splitCall.result = FALSE

\* C2: with both inputs non-null and a non-zero error status after Perform,
\* split_part returns False, reshape_parts is never invoked (so its result is
\* never reported), and no object's shape is changed by the failed call.
C2_FailedState ==
    (SplitCalled /\ splitCall.err # <<>> /\ splitCall.err # <<0>>)
        => /\ ~splitCall.partNull /\ ~splitCall.splitterNull
           /\ splitCall.result = FALSE
           /\ TraceOps("reshape_parts") = {}
           /\ splitCall.reshapeRet = <<>>
C2_FailedStep ==
    (splitCall'.op = "split_part" /\ splitCall'.err # <<>> /\ splitCall'.err # <<0>>)
        => objShape' = objShape
C2_KernelErrorFails == []C2_FailedState /\ [][C2_FailedStep]_vars

C2_Witness ==
    /\ SplitCalled
    /\ splitCall.err = <<MaxErr>>
    /\ splitCall.split_both
    /\ Len(splitCall.trace) = 5
    /\ splitCall.trace[4].op = "Perform"
    /\ splitCall.result = FALSE

\* C3: with both inputs non-null and error status zero, reshape_parts is
\* invoked exactly once, as the last step, with [part, splitter] when
\* split_both and with [part] otherwise, and split_part returns exactly what
\* reshape_parts reported; in tool-only mode a splitter that is another
\* object than the part keeps its shape.
C3_SuccessState ==
    (SplitCalled /\ ~splitCall.partNull /\ ~splitCall.splitterNull
                 /\ splitCall.err = <<0>>)
        => /\ Cardinality(TraceOps("reshape_parts")) = 1
           /\ splitCall.trace[Len(splitCall.trace)] =
                Ev("reshape_parts",
                   IF splitCall.split_both
                   THEN <<splitCall.part, splitCall.splitter>>
                   ELSE <<splitCall.part>>)
           /\ splitCall.reshapeRet # <<>>
           /\ splitCall.result = splitCall.reshapeRet[1]

C3_SuccessStep ==
    (splitCall'.op = "split_part" /\ splitCall'.err = <<0>>
        /\ ~splitCall'.split_both /\ splitCall'.splitter # splitCall'.part)
        => objShape'[splitCall'.splitter] = objShape[splitCall'.splitter]
C3_SuccessReshapes == []C3_SuccessState /\ [][C3_SuccessStep]_vars

C3_Witness ==
    /\ SplitCalled
    /\ splitCall.err = <<0>>
    /\ ~splitCall.split_both
    /\ splitCall.part # splitCall.splitter
    /\ splitCall.trace[Len(splitCall.trace)] = Ev("reshape_parts", <<splitCall.part>>)
    /\ splitCall.reshapeRet = <<FALSE>>
    /\ splitCall.result = FALSE

\* C15: in every split_part call with two non-null inputs the part is
\* registered with AddArgument; the splitter is registered with AddArgument
\* when split_both and with AddTool otherwise, never with both and never
\* with neither; every registration comes before Perform, Perform is invoked
\* exactly once, and ErrorStatus is read once, after Perform.
C15_RegisterThenPerform ==
    (SplitCalled /\ ~splitCall.partNull /\ ~splitCall.splitterNull)
        => LET t == splitCall.trace
               asArgument == TraceOps("AddArgument")
               asTool == TraceOps("AddTool")
           IN
           /\ \E i \in asArgument : t[i].args = <<splitCall.part>>
           /\ IF splitCall.split_both
              THEN /\ asTool = {}
                   /\ Cardinality(asArgument) = 2
                   /\ \E i \in asArgument, j \in asArgument :
                         /\ i # j
                         /\ t[i].args = <<splitCall.part>>
                         /\ t[j].args = <<splitCall.splitter>>
              ELSE /\ Cardinality(asArgument) = 1
                   /\ Cardinality(asTool) = 1
                   /\ \A j \in asTool : t[j].args = <<splitCall.splitter>>
           /\ Cardinality(TraceOps("GEOMAlgo_Splitter")) = 1
           /\ Cardinality(TraceOps("Perform")) = 1
           /\ Cardinality(TraceOps("ErrorStatus")) = 1
           /\ \A p \in TraceOps("Perform") :
                 /\ \A r \in asArgument \cup asTool : r < p
                 /\ \A c \in TraceOps("GEOMAlgo_Splitter") :
                       \A r \in asArgument \cup asTool : c < r
                 /\ \A e \in TraceOps("ErrorStatus") : p < e

C15_Witness ==
    /\ SplitCalled
    /\ ~splitCall.partNull /\ ~splitCall.splitterNull
    /\ ~splitCall.split_both
    /\ splitCall.part # splitCall.splitter
    /\ splitCall.err = <<MaxErr>>
    /\ Cardinality(TraceOps("AddTool")) = 1
    /\ Cardinality(TraceOps("Perform")) = 1

(***************************************************************************)
(* FixAssembly (afem/structure/fix.py) and its collaborators:              *)
(* AssemblyAPI.get_assy, Assembly.get_parts, Assembly.as_compound,         *)
(* Part.set_shape and FixShape (afem.structure.assembly, afem.topology.fix)*)
(***************************************************************************)
Parts == 1..NParts
Assys == {"wing", "fuselage"}

\* what a caller can pass as assy: None, the name of an assembly, a name no
\* assembly has, an Assembly object, or an object that is no Assembly
AssyArgs ==
    {[kind |-> "None", id |-> "-"], [kind |-> "name", id |-> "wing"],
     [kind |-> "name", id |-> "tail"], [kind |-> "Assembly", id |-> "fuselage"],
     [kind |-> "other", id |-> "-"]}
NotFound == [kind |-> "other", id |-> "-"]

\* a healing parameter is None (the kernel default is used) or given
ParamArgs == {"None", "given"}

\* AssemblyAPI.get_assy(assy): an Assembly is returned as it is, a name is
\* looked up among the assemblies, None gives the active assembly
get_assy(assy) ==
    CASE assy.kind = "Assembly" -> assy
      [] assy.kind = "name" -> IF assy.id \in Assys
                               THEN [kind |-> "Assembly", id |-> assy.id]
                               ELSE NotFound
      [] assy.kind = "None" -> IF active \in Assys
                               THEN [kind |-> "Assembly", id |-> active]
                               ELSE NotFound
      [] OTHER -> NotFound

\* lines 23, 51, 72: isinstance(assy, Assembly)
IsAssemblyMutAny(assy) == TRUE
IsAssembly(assy) == assy.kind = "Assembly"

\* a set of parts as the list get_parts returns, in ascending order
RECURSIVE SortedSeq(_)
SortedSeq(S) ==
    IF S = {} THEN <<>>
    ELSE LET least == CHOOSE x \in S : \A y \in S : x <= y
         IN <<least>> \o SortedSeq(S \ {least})

\* Assembly.get_parts(): the list of the assembly's parts, each part once
get_parts(a) == SortedSeq(assyParts[a])

\* one call FixAssembly makes on a collaborator: assy names the assembly
\* whose compound the call is made on ("-" if none), part the part it is
\* about (0 if none), val lists the shape it passes or returns
FEv(op, assy, part, val) == [op |-> op, assy |-> assy, part |-> part, val |-> val]

\* the shape of a part is opaque to FixAssembly: the shape the part was
\* built with, or a shape the healer returned in its place
PartShapes == {"built", "healed"}

\* FixShape.apply on a shape the healer alters: another shape is returned
Heal(h) == "healed"

\* lines 31-33, one turn of the loop: new_shape = fix.apply(part);
\* part.set_shape(new_shape)
FixOnePartMutSkipSetShape(part, new_shape) ==
    << FEv("apply", "-", part, <<new_shape>>) >>
FixOnePart(part, new_shape) ==
    << FEv("apply", "-", part, <<new_shape>>),
       FEv("set_shape", "-", part, <<new_shape>>) >>

\* lines 31-33: for part in parts, from the i-th part on
RECURSIVE FixLoop(_, _, _)
FixLoop(parts, i, healed) ==
    IF i > Len(parts) THEN <<>>
    ELSE FixOnePart(parts[i], healed[parts[i]]) \o FixLoop(parts, i + 1, healed)

\* the shapes of the parts after the set_shape calls of a trace, in order
RECURSIVE ApplySetShape(_, _, _)
ApplySetShape(shapes, trace, i) ==
    IF i > Len(trace) THEN shapes
    ELSE ApplySetShape(
            IF trace[i].op = "set_shape"
            THEN [shapes EXCEPT ![trace[i].part] = trace[i].val[1]]
            ELSE shapes,
            trace, i + 1)

\* a tolerance, and the tolerances of the sub-shapes of a compound: one
\* sub-shape for each part of the assembly
Tols == 0..MaxTol
NoTols == [tol |-> 0, over |-> {}, changed |-> <<>>, after |-> <<>>]

NoFixCall ==
    [op |-> "none", assy |-> NotFound, params |-> <<>>, trace |-> <<>>,
     raised |-> "-", ret |-> <<>>, tols |-> NoTols]

FixRecord(op, assy, params, trace, raised, ret) ==
    [op |-> op, assy |-> assy, params |-> params, trace |-> trace,
     raised |-> raised, ret |-> ret, tols |-> NoTols]

\* a tolerance call that went through: the target tol, the sub-shapes of
\* the compound whose tolerance was over tol, the sub-shapes whose tolerance
\* the call changed with their new tolerance, and the tolerances a call
\* that sets them all leaves
TolRecord(op, assy, trace, ret, tol, over, changed, after) ==
    [FixRecord(op, assy, <<>>, trace, "-", ret)
        EXCEPT !.tols = [tol |-> tol, over |-> over, changed |-> changed,
                         after |-> after]]
Over(before, tol) == {p \in DOMAIN before : before[p] > tol}
Changed(before, after) ==
    [p \in {q \in DOMAIN before : after[q] # before[q]} |-> after[p]]

\* FixShape.limit_tolerance(shape, tol): every sub-shape tolerance above tol
\* is reduced to tol; yields whether any was
FixShape_limit_tolerance(before, tol) ==
    [after |-> [p \in DOMAIN before |->
                   IF before[p] > tol THEN tol ELSE before[p]],
     yield |-> << \E p \in DOMAIN before : before[p] > tol >>]

\* FixShape.set_tolerance(shape, tol): every sub-shape tolerance becomes
\* tol.  What the call yields is the callee's: nothing (None) as the
\* facility is described, or a value
FixShape_set_tolerance(subshapes, tol) == [p \in subshapes |-> tol]
SetToleranceYields == {<<>>, <<TRUE>>}

\* line 55: return FixShape.limit_tolerance(shape, tol)
LimitToleranceReturnMutNone(yield) == <<>>
LimitToleranceReturn(yield) == yield

\* line 76: return FixShape.set_tolerance(shape, tol)
SetToleranceReturn(yield) == yield

\* lines 24, 52, 73: raise TypeError('Could not find assembly.'), after
\* get_assy and before anything else is called
RaiseTypeErrorMutReturn(op, assy, params, resolve) ==
    FixRecord(op, assy, params, resolve, "-", <<>>)
RaiseTypeError(op, assy, params, resolve) ==
    FixRecord(op, assy, params, resolve, "TypeError", <<>>)

\* FixAssembly.__init__, lines 21-33
FixAssembly(assy, precision, min_tol, max_tol) ==
    LET resolved == get_assy(assy)
        params == <<precision, min_tol, max_tol>>
        resolve == << FEv("get_assy", "-", 0, <<>>) >>
    IN
    /\ UNCHANGED <<splitVars, shapeVars, bboxVars, subVars, active, assyParts>>
    /\ IF ~IsAssembly(resolved)
       THEN /\ fixCall' = RaiseTypeError("FixAssembly", assy, params, resolve)
            /\ UNCHANGED partShape
       ELSE \E parts \in {get_parts(resolved.id)} :
            \E altered \in SUBSET Range(parts) :
            \E healed \in {[p \in Range(parts) |->
                               IF p \in altered THEN Heal(partShape[p])
                                                ELSE partShape[p]]} :
            \E trace \in {resolve
                           \o << FEv("get_parts", resolved.id, 0, <<>>),
                                 FEv("as_compound", resolved.id, 0, <<>>),
                                 FEv("FixShape", resolved.id, 0, <<>>) >>
                           \o FixLoop(parts, 1, healed)} :
              /\ partShape' = ApplySetShape(partShape, trace, 1)
              /\ fixCall' = FixRecord("FixAssembly", assy, params, trace, "-", <<>>)

\* FixAssembly.limit_tolerance, lines 50-55.  The tolerance the kernel holds
\* for a sub-shape of the compound when the call is made is the least or
\* the greatest there is
limit_tolerance(assy, tol) ==
    LET resolved == get_assy(assy)
        resolve == << FEv("get_assy", "-", 0, <<>>) >>
    IN
    /\ UNCHANGED <<splitVars, shapeVars, bboxVars, subVars, active, assyParts, partShape>>
    /\ IF ~IsAssembly(resolved)
       THEN fixCall' = RaiseTypeError("limit_tolerance", assy, <<>>, resolve)
       ELSE \E before \in [assyParts[resolved.id] -> {0, MaxTol}] :
            \E r \in {FixShape_limit_tolerance(before, tol)} :
              fixCall' = TolRecord("limit_tolerance", assy,
                            resolve \o << FEv("as_compound", resolved.id, 0, <<>>),
                                          FEv("FixShape.limit_tolerance",
                                              resolved.id, 0, <<tol>>) >>,
                            LimitToleranceReturn(r.yield), tol, Over(before, tol),
                            Changed(before, r.after), <<>>)

\* FixAssembly.set_tolerance, lines 71-76
set_tolerance(assy, tol) ==
    LET resolved == get_assy(assy)
        resolve == << FEv("get_assy", "-", 0, <<>>) >>
    IN
    /\ UNCHANGED <<splitVars, shapeVars, bboxVars, subVars, active, assyParts, partShape>>
    /\ IF ~IsAssembly(resolved)
       THEN fixCall' = RaiseTypeError("set_tolerance", assy, <<>>, resolve)
       ELSE \E yield \in SetToleranceYields :
              fixCall' = TolRecord("set_tolerance", assy,
                            resolve \o << FEv("as_compound", resolved.id, 0, <<>>),
                                          FEv("FixShape.set_tolerance",
                                              resolved.id, 0, <<tol>>) >>,
                            SetToleranceReturn(yield), tol, {}, <<>>,
                            FixShape_set_tolerance(assyParts[resolved.id], tol))

FixAssemblyCall ==
    \E assy \in AssyArgs, precision \in ParamArgs, min_tol \in ParamArgs,
       max_tol \in ParamArgs : FixAssembly(assy, precision, min_tol, max_tol)
LimitToleranceCall == \E assy \in AssyArgs, tol \in Tols : limit_tolerance(assy, tol)
SetToleranceCall == \E assy \in AssyArgs, tol \in Tols : set_tolerance(assy, tol)

\* no assembly is active and no assembly has a part
NoAssyParts == [a \in Assys |-> {}]
NoPartShape == [p \in Parts |-> "built"]

(***************************************************************************)
(* Claims about FixAssembly                                                *)
(***************************************************************************)
FixOps == {"FixAssembly", "limit_tolerance", "set_tolerance"}

\* the argument resolves to an assembly: an Assembly object, the name of an
\* assembly, or None while an assembly is active
Resolvable(assy) ==
    \/ assy.kind = "Assembly"
    \/ assy.kind = "name" /\ assy.id \in Assys
    \/ assy.kind = "None" /\ active \in Assys
ResolvedId(assy) == IF assy.kind = "None" THEN active ELSE assy.id

FixTraceOf(op, part) ==
    {i \in DOMAIN fixCall.trace :
        fixCall.trace[i].op = op /\ fixCall.trace[i].part = part}

\* C4: after FixAssembly is constructed on a resolvable assembly (each of
\* precision, min_tol, max_tol given or None), every part of the assembly
\* has had set_shape called exactly once, with what fix.apply returned for
\* that same part, and holds that shape; parts outside the assembly have no
\* set_shape call and keep their shape; the parts of every assembly and the
\* active assembly are what they were.
C4_FixedState ==
    (fixCall.op = "FixAssembly" /\ Resolvable(fixCall.assy))
        => /\ fixCall.raised = "-"
           /\ \A p \in assyParts[ResolvedId(fixCall.assy)] :
                /\ Cardinality(FixTraceOf("set_shape", p)) = 1
                /\ Cardinality(FixTraceOf("apply", p)) = 1
                /\ \A i \in FixTraceOf("set_shape", p) :
                     /\ i - 1 \in FixTraceOf("apply", p)
                     /\ fixCall.trace[i].val = fixCall.trace[i - 1].val
                     /\ partShape[p] = fixCall.trace[i].val[1]
           /\ \A p \in Parts \ assyParts[ResolvedId(fixCall.assy)] :
                FixTraceOf("set_shape", p) = {}
C4_FixedStep ==
    fixCall'.op = "FixAssembly"
        => /\ assyParts' = assyParts
           /\ active' = active
           /\ Resolvable(fixCall'.assy)
                => \A p \in Parts \ assyParts[ResolvedId(fixCall'.assy)] :
                      partShape'[p] = partShape[p]
C4_FixKeepsStructure == []C4_FixedState /\ [][C4_FixedStep]_vars

C4_Witness ==
    /\ fixCall.op = "FixAssembly"
    /\ fixCall.assy = [kind |-> "name", id |-> "wing"]
    /\ fixCall.params = <<"None", "given", "None">>
    /\ assyParts["wing"] = {NParts}
    /\ Cardinality(FixTraceOf("set_shape", NParts)) = 1
    /\ partShape[1] # partShape[NParts]

\* C5: FixAssembly, limit_tolerance and set_tolerance all resolve their
\* argument through get_assy first (None gives the active assembly) and raise
\* TypeError exactly when that gives no Assembly; on the error nothing but
\* get_assy was called (no get_parts, as_compound, FixShape, apply, set_shape
\* or tolerance call) and no part's shape is replaced.
C5_ErrorState ==
    fixCall.op \in FixOps
        => /\ fixCall.trace[1].op = "get_assy"
           /\ (fixCall.raised = "TypeError") <=> ~Resolvable(fixCall.assy)
           /\ ~Resolvable(fixCall.assy)
                => /\ Len(fixCall.trace) = 1
                   /\ fixCall.ret = <<>>
C5_ErrorStep ==
    (fixCall'.op \in FixOps /\ ~Resolvable(fixCall'.assy))
        => /\ partShape' = partShape
           /\ assyParts' = assyParts
C5_UnresolvedRaises == []C5_ErrorState /\ [][C5_ErrorStep]_vars

C5_Witness ==
    /\ fixCall.op = "set_tolerance"
    /\ fixCall.assy = [kind |-> "None", id |-> "-"]
    /\ active = None
    /\ fixCall.raised = "TypeError"
    /\ Len(fixCall.trace) = 1

\* C12: set_tolerance on a resolvable assembly makes one
\* FixShape.set_tolerance call, on the assembly's compound with the given
\* value, after which every sub-shape of the compound has that tolerance,
\* and returns None whatever that call yielded.
C12_SetToleranceNone ==
    (fixCall.op = "set_tolerance" /\ Resolvable(fixCall.assy))
        => /\ fixCall.raised = "-"
           /\ Len(fixCall.trace) = 3
           /\ fixCall.trace[2] = FEv("as_compound", ResolvedId(fixCall.assy), 0, <<>>)
           /\ fixCall.trace[3] = FEv("FixShape.set_tolerance",
                                     ResolvedId(fixCall.assy), 0, <<fixCall.tols.tol>>)
           /\ DOMAIN fixCall.tols.after = assyParts[ResolvedId(fixCall.assy)]
           /\ \A p \in DOMAIN fixCall.tols.after :
                 fixCall.tols.after[p] = fixCall.tols.tol
           /\ fixCall.ret = <<>>

\* C13: limit_tolerance on a resolvable assembly makes one
\* FixShape.limit_tolerance call, on the assembly's compound with the given
\* target, and returns true exactly when some sub-shape of the compound had
\* a tolerance over the target, each such tolerance being reduced to the
\* target and no other changed, and false when none had; it calls neither
\* apply nor set_shape.
C13_LimitReports ==
    (fixCall.op = "limit_tolerance" /\ Resolvable(fixCall.assy))
        => /\ fixCall.raised = "-"
           /\ Len(fixCall.trace) = 3
           /\ fixCall.trace[2] = FEv("as_compound", ResolvedId(fixCall.assy), 0, <<>>)
           /\ fixCall.trace[3] = FEv("FixShape.limit_tolerance",
                                     ResolvedId(fixCall.assy), 0, <<fixCall.tols.tol>>)
           /\ fixCall.tols.over \subseteq assyParts[ResolvedId(fixCall.assy)]
           /\ fixCall.ret = << fixCall.tols.over # {} >>
           /\ DOMAIN fixCall.tols.changed = fixCall.tols.over
           /\ \A p \in fixCall.tols.over :
                 fixCall.tols.changed[p] = fixCall.tols.tol
           /\ \A p \in Parts :
                 FixTraceOf("set_shape", p) = {} /\ FixTraceOf("apply", p) = {}

C13_Witness ==
    /\ fixCall.op = "limit_tolerance"
    /\ fixCall.assy = [kind |-> "Assembly", id |-> "fuselage"]
    /\ fixCall.tols.tol = 0
    /\ fixCall.tols.over = {NParts}
    /\ fixCall.ret = <<TRUE>>

(***************************************************************************)
(* Shape and its typed subclasses (afem/topology/entities.py).  The kernel *)
(* handle (TopoDS_Shape) is a TShape, a location and an orientation; the   *)
(* TShape carries the shape type.                                          *)
(***************************************************************************)
\* lines 64-72: the kernel's type tags, in the order of TopAbs_ShapeEnum
ShapeEnum ==
    << "COMPOUND", "COMPSOLID", "SOLID", "SHELL", "FACE", "WIRE", "EDGE",
       "VERTEX", "SHAPE" >>
ShapeTypes == Range(ShapeEnum)

TypedClasses ==
    {"Vertex", "Edge", "Wire", "Face", "Shell", "Solid", "CompSolid", "Compound"}

NullTShape == [type |-> "NULL", n |-> 0]
TShapes == [type : ShapeTypes, n : 1..MaxTShape]
Locations == 0..MaxLoc
Orientations == {"FORWARD", "REVERSED"}

\* a handle; cast tells that the Python object is an instance of the TopoDS
\* subclass of its type (TopoDS_Vertex, ...) and not only of TopoDS_Shape
NullHandles ==
    [tshape : {NullTShape}, loc : Locations, ori : Orientations, cast : {FALSE}]
TopoHandles ==
    NullHandles
    \cup [tshape : TShapes, loc : Locations, ori : Orientations, cast : {FALSE}]
    \cup [tshape : {t \in TShapes : t.type # "SHAPE"}, loc : Locations,
          ori : Orientations, cast : {TRUE}]

\* TopoDS_Shape.IsNull(), ShapeType(), IsSame(), IsEqual(), IsPartner()
K_IsNull(h) == h.tshape = NullTShape
K_ShapeType(h) == h.tshape.type
K_IsPartner(h, g) == h.tshape = g.tshape
K_IsSame(h, g) == h.tshape = g.tshape /\ h.loc = g.loc
K_IsEqual(h, g) == h.tshape = g.tshape /\ h.loc = g.loc /\ h.ori = g.ori

\* TopoDS_Shape.HashCode(upper): from the TShape and the location, in 1..upper
TypeIndex(type) ==
    IF type = "NULL" THEN 0
    ELSE CHOOSE i \in 1..Len(ShapeEnum) : ShapeEnum[i] = type
TShapeAddr(t) == TypeIndex(t.type) * (MaxTShape + 1) + t.n
K_HashCode(h, upper) ==
    ((TShapeAddr(h.tshape) * (MaxLoc + 1) + h.loc) % upper) + 1

\* TopoDS.Vertex_(shape), ...: the same handle as an instance of the subclass
K_Downcast(h) == [h EXCEPT !.cast = TRUE]

\* line 109: the upper limit handed to HashCode
HashUpper == 99999

\* Python's hash of an int: the int modulo the hash modulus (2^31 - 1 on a
\* 32-bit build, 2^61 - 1 on a 64-bit one; both exceed HashUpper)
PyHash(n) == n % 2147483647

\* a wrapper object, and the outcome of a constructor or factory call
Wrapper(cls, h) == [cls |-> cls, shape |-> h]
NoWrapper == Wrapper("-", [tshape |-> NullTShape, loc |-> 0, ori |-> "FORWARD",
                           cast |-> FALSE])
Ok(w) == [raised |-> "-", obj |-> w]
Raised(e) == [raised |-> e, obj |-> NoWrapper]

\* lines 74-80: Shape.__init__ (every kernel handle is a TopoDS_Shape)
ShapeInit(cls, h) == Ok(Wrapper(cls, h))

\* lines 478, 510, 550, 570, 602, 622, 650, 670: the type each subclass requires
RequiredTypeMutCompSolid(cls) ==
    CASE cls = "Vertex" -> "VERTEX"
      [] cls = "Edge" -> "EDGE"
      [] cls = "Wire" -> "WIRE"
      [] cls = "Face" -> "FACE"
      [] cls = "Shell" -> "SHELL"
      [] cls = "Solid" -> "SOLID"
      [] cls = "CompSolid" -> "COMPOUND"
      [] cls = "Compound" -> "COMPOUND"
RequiredType(cls) ==
    CASE cls = "Vertex" -> "VERTEX"
      [] cls = "Edge" -> "EDGE"
      [] cls = "Wire" -> "WIRE"
      [] cls = "Face" -> "FACE"
      [] cls = "Shell" -> "SHELL"
      [] cls = "Solid" -> "SOLID"
      [] cls = "CompSolid" -> "COMPSOLID"
      [] cls = "Compound" -> "COMPOUND"

\* lines 475-482 (Vertex) ... 667-674 (Compound): the typed __init__
TypedInit(cls, h) ==
    IF K_IsNull(h) THEN Raised("ValueError")
    ELSE IF ~(K_ShapeType(h) = RequiredType(cls)) THEN Raised("TypeError")
    ELSE ShapeInit(cls, IF ~h.cast THEN K_Downcast(h) ELSE h)

\* lines 445-462: the subclass Shape.wrap picks for a type
WrapClassMutShellSolid(type) ==
    CASE type = "VERTEX" -> "Vertex"
      [] type = "EDGE" -> "Edge"
      [] type = "WIRE" -> "Wire"
      [] type = "FACE" -> "Face"
      [] type = "SHELL" -> "Solid"
      [] type = "SOLID" -> "Solid"
      [] type = "COMPSOLID" -> "CompSolid"
      [] type = "COMPOUND" -> "Compound"
      [] OTHER -> "Shape"
WrapClass(type) ==
    CASE type = "VERTEX" -> "Vertex"
      [] type = "EDGE" -> "Edge"
      [] type = "WIRE" -> "Wire"
      [] type = "FACE" -> "Face"
      [] type = "SHELL" -> "Shell"
      [] type = "SOLID" -> "Solid"
      [] type = "COMPSOLID" -> "CompSolid"
      [] type = "COMPOUND" -> "Compound"
      [] OTHER -> "Shape"

\* lines 428-462: Shape.wrap
wrapMutNoNullCheck(h) ==
    IF K_IsNull(h) THEN Raised("Standard_NullObject")
    ELSE IF WrapClass(K_ShapeType(h)) \in TypedClasses
         THEN TypedInit(WrapClass(K_ShapeType(h)), h)
         ELSE ShapeInit("Shape", h)
wrap(h) ==
    IF K_IsNull(h) THEN ShapeInit("Shape", h)
    ELSE IF WrapClass(K_ShapeType(h)) \in TypedClasses
         THEN TypedInit(WrapClass(K_ShapeType(h)), h)
         ELSE ShapeInit("Shape", h)

\* lines 102-109: Shape.hash_code; lines 82-86: Shape.__hash__
hash_code(w) == K_HashCode(w.shape, HashUpper)
py_hash(w) == PyHash(hash_code(w))

\* lines 327-361: is_partner, is_same, is_equal; lines 88-92: Shape.__eq__
is_partner(w, other) == K_IsPartner(w.shape, other.shape)
is_same(w, other) == K_IsSame(w.shape, other.shape)
is_equal(w, other) == K_IsEqual(w.shape, other.shape)
py_eqMutIsEqual(w, other) == is_equal(w, other)
py_eq(w, other) == is_same(w, other)

NoShapeIn == [a |-> NoWrapper.shape, b |-> NoWrapper.shape]
NoShapeCall ==
    [op |-> "none", cls |-> "-", res |-> Raised("-"), res2 |-> Raised("-"),
     same |-> FALSE, eq |-> FALSE, hash |-> <<>>, pyhash |-> <<>>]

\* a typed subclass constructed on the handle at hand
Construct(cls) ==
    /\ shapeCall' = [NoShapeCall EXCEPT !.op = "construct", !.cls = cls,
                                        !.res = TypedInit(cls, shapeIn.a)]
    /\ UNCHANGED <<splitVars, fixVars, bboxVars, subVars, shapeIn>>

\* Shape.wrap on the handle at hand
Wrap ==
    /\ shapeCall' = [NoShapeCall EXCEPT !.op = "wrap", !.res = wrap(shapeIn.a)]
    /\ UNCHANGED <<splitVars, fixVars, bboxVars, subVars, shapeIn>>

\* Shape.wrap on both handles at hand, and the two wrappers compared
WrapTwice ==
    /\ \E r1 \in {wrap(shapeIn.a)}, r2 \in {wrap(shapeIn.b)} :
         shapeCall' =
            IF r1.raised = "-" /\ r2.raised = "-"
            THEN [op |-> "wrap_twice", cls |-> "-", res |-> r1, res2 |-> r2,
                  same |-> is_same(r1.obj, r2.obj),
                  eq |-> py_eq(r1.obj, r2.obj),
                  hash |-> <<hash_code(r1.obj), hash_code(r2.obj)>>,
                  pyhash |-> <<py_hash(r1.obj), py_hash(r2.obj)>>]
            ELSE [NoShapeCall EXCEPT !.op = "wrap_twice", !.res = r1, !.res2 = r2]
    /\ UNCHANGED <<splitVars, fixVars, bboxVars, subVars, shapeIn>>

ConstructCall == \E cls \in TypedClasses : Construct(cls)
WrapCall == Wrap
WrapTwiceCall == WrapTwice

\* TopExp_Explorer(shape, type_): More(), Current(), Next() yield the
\* sub-shapes of that type one after another, a sub-shape once for each way
\* it is reached, as handles that are not null
ExplorerTypes == ShapeTypes \ {"SHAPE"}
ExploredHandles(type) ==
    {h \in TopoHandles : ~K_IsNull(h) /\ K_ShapeType(h) = type /\ ~h.cast}

\* lines 308-312: is_unique, no shape collected so far is the same as si
IsUniqueMutIsEqual(shapes, si) ==
    \A k \in 1..Len(shapes) : ~is_equal(shapes[k], si)
IsUnique(shapes, si) ==
    \A k \in 1..Len(shapes) : ~is_same(shapes[k], si)

\* lines 306-316: the loop of _get_shapes with the explorer at the i-th
\* sub-shape and the list collected so far
RECURSIVE GetShapesLoop(_, _, _)
GetShapesLoop(current, i, shapes) ==
    IF i > Len(current) THEN shapes
    ELSE LET si == wrap(current[i]).obj
         IN GetShapesLoop(current, i + 1,
                          IF IsUnique(shapes, si) THEN Append(shapes, si)
                                                  ELSE shapes)

\* lines 301-317: Shape._get_shapes
get_shapes(current) == GetShapesLoop(current, 1, <<>>)

NoExplored == <<>>
NoSubCall == [op |-> "none", type |-> "-", shapes |-> <<>>]

\* lines 207-277: vertices, edges, wires, faces, shells, solids, compounds,
\* compsolids, each _get_shapes with its type
GetShapes(type) ==
    /\ \A k \in 1..Len(explored) : K_ShapeType(explored[k]) = type
    /\ subCall' = [op |-> "_get_shapes", type |-> type,
                   shapes |-> get_shapes(explored)]
    /\ UNCHANGED <<splitVars, fixVars, shapeVars, bboxVars, explored>>

GetShapesCall == \E type \in ExplorerTypes : GetShapes(type)

(***************************************************************************)
(* Claims about Shape                                                      *)
(***************************************************************************)
\* the type a typed subclass stands for, by its name
SubclassType ==
    [Vertex |-> "VERTEX", Edge |-> "EDGE", Wire |-> "WIRE", Face |-> "FACE",
     Shell |-> "SHELL", Solid |-> "SOLID", CompSolid |-> "COMPSOLID",
     Compound |-> "COMPOUND"]

\* C6: on a null kernel handle every typed subclass constructor raises and
\* creates no wrapper, while Shape.wrap raises nothing and returns an
\* instance of the base Shape (no typed subclass) that holds the handle.
C6_NullHandle ==
    K_IsNull(shapeIn.a)
        => /\ shapeCall.op = "construct"
                => /\ shapeCall.res.raised # "-"
                   /\ shapeCall.res.obj = NoWrapper
           /\ shapeCall.op = "wrap"
                => /\ shapeCall.res.raised = "-"
                   /\ shapeCall.res.obj.cls = "Shape"
                   /\ shapeCall.res.obj.shape = shapeIn.a

C6_Witness ==
    /\ K_IsNull(shapeIn.a)
    /\ shapeCall.op = "construct"
    /\ shapeCall.cls = "Compound"
    /\ shapeCall.res.raised = "ValueError"

\* C7: a typed subclass constructed on a non-null handle whose type is not
\* the subclass's type raises TypeError; so every wrapper a typed constructor
\* returns holds a non-null handle of the subclass's type.
C7_TypeMismatch ==
    shapeCall.op = "construct"
        => /\ (~K_IsNull(shapeIn.a)
                 /\ K_ShapeType(shapeIn.a) # SubclassType[shapeCall.cls])
                => /\ shapeCall.res.raised = "TypeError"
                   /\ shapeCall.res.obj = NoWrapper
           /\ shapeCall.res.raised = "-"
                => /\ shapeCall.res.obj.cls = shapeCall.cls
                   /\ ~K_IsNull(shapeCall.res.obj.shape)
                   /\ K_ShapeType(shapeCall.res.obj.shape)
                        = SubclassType[shapeCall.cls]

C7_Witness ==
    /\ shapeCall.op = "construct"
    /\ shapeCall.cls = "CompSolid"
    /\ K_ShapeType(shapeIn.a) = "COMPOUND"
    /\ shapeCall.res.raised = "TypeError"

\* C8: Shape.wrap on a non-null handle never raises; for a handle of one of
\* the eight topology types it returns an instance of exactly the matching
\* subclass, for any other type an instance of the base Shape; the wrapper
\* holds the same kernel shape.
C8_WrapDispatch ==
    (shapeCall.op = "wrap" /\ ~K_IsNull(shapeIn.a))
        => /\ shapeCall.res.raised = "-"
           /\ K_IsEqual(shapeCall.res.obj.shape, shapeIn.a)
           /\ \A cls \in TypedClasses :
                K_ShapeType(shapeIn.a) = SubclassType[cls]
                    <=> shapeCall.res.obj.cls = cls
           /\ (\A cls \in TypedClasses : K_ShapeType(shapeIn.a) # SubclassType[cls])
                => shapeCall.res.obj.cls = "Shape"

C8_Witness ==
    /\ shapeCall.op = "wrap"
    /\ K_ShapeType(shapeIn.a) = "SHELL"
    /\ ~shapeIn.a.cast
    /\ shapeCall.res.obj.cls = "Shell"
    /\ shapeCall.res.obj.shape.cast

\* C9: two handles the kernel holds to be the same (same TShape and
\* location, whatever the orientation), each wrapped by Shape.wrap, give
\* wrappers that are is_same and ==, with equal hash_code and equal Python
\* hash; and any two wrappers that are == have equal Python hashes.
C9_SameWrappers ==
    shapeCall.op = "wrap_twice"
        => /\ shapeCall.res.raised = "-" /\ shapeCall.res2.raised = "-"
           /\ K_IsSame(shapeIn.a, shapeIn.b)
                => /\ shapeCall.same
                   /\ shapeCall.eq
                   /\ shapeCall.hash[1] = shapeCall.hash[2]
                   /\ shapeCall.pyhash[1] = shapeCall.pyhash[2]
           /\ shapeCall.eq => shapeCall.pyhash[1] = shapeCall.pyhash[2]

C9_Witness ==
    /\ shapeCall.op = "wrap_twice"
    /\ K_IsSame(shapeIn.a, shapeIn.b)
    /\ shapeIn.a.ori # shapeIn.b.ori
    /\ K_ShapeType(shapeIn.a) = "FACE"
    /\ shapeIn.a.loc = MaxLoc
    /\ shapeCall.eq
    /\ shapeCall.pyhash[1] = shapeCall.pyhash[2]

\* C16: the list a sub-shape accessor returns through _get_shapes holds no
\* two entries that are the same under is_same; every sub-shape the explorer
\* yielded is the same as exactly one entry; the entries are the wrappers of
\* the first occurrences of their classes, in the order in which those were
\* yielded; and the list is empty exactly when the explorer yielded nothing.
FirstOccurrences ==
    {k \in 1..Len(explored) :
        \A m \in 1..(k - 1) : ~K_IsSame(explored[m], explored[k])}
C16_UniqueSubShapes ==
    subCall.op = "_get_shapes"
        => LET r == subCall.shapes IN
           /\ \A i \in 1..Len(r), j \in 1..Len(r) :
                 is_same(r[i], r[j]) => i = j
           /\ \A k \in 1..Len(explored) :
                 Cardinality({i \in 1..Len(r) : K_IsSame(r[i].shape, explored[k])}) = 1
           /\ Len(r) = Cardinality(FirstOccurrences)
           /\ \A i \in 1..Len(r) :
                 \E k \in FirstOccurrences :
                    /\ Cardinality({m \in FirstOccurrences : m < k}) = i - 1
                    /\ K_IsEqual(r[i].shape, explored[k])
                    /\ r[i].cls = WrapClass(subCall.type)
           /\ (r = <<>>) <=> (explored = <<>>)

C16_Witness ==
    /\ subCall.op = "_get_shapes"
    /\ subCall.type = "EDGE"
    /\ Len(explored) = MaxExplore
    /\ K_IsSame(explored[1], explored[MaxExplore])
    /\ ~K_IsEqual(explored[1], explored[MaxExplore])
    /\ ~K_IsSame(explored[1], explored[2])
    /\ Len(subCall.shapes) = 2
    /\ K_IsEqual(subCall.shapes[1].shape, explored[1])

(***************************************************************************)
(* BBox (afem/topology/entities.py), a Bnd_Box of the kernel: a void flag, *)
(* the lower and upper corner of what was added, and a gap                 *)
(***************************************************************************)
Axes == 1..3
Coords == 0..MaxCoord
Points == [Axes -> Coords]
Gaps == 0..MaxGap
Origin == [i \in Axes |-> 0]
FarCorner == [i \in Axes |-> MaxCoord]

Abs(x) == IF x < 0 THEN -x ELSE x
Min2(x, y) == IF x <= y THEN x ELSE y
Max2(x, y) == IF x >= y THEN x ELSE y

\* Bnd_Box(): void, no gap
VoidBox == [void |-> TRUE, lo |-> Origin, hi |-> Origin, gap |-> 0]
PointBox(p) == [void |-> FALSE, lo |-> p, hi |-> p, gap |-> 0]

\* what a Python call returns or raises: None, a value, or an exception
PyNone == [kind |-> "None", v |-> <<>>]
PyVal(v) == [kind |-> "value", v |-> v]
PyExc(e) == [kind |-> e, v |-> <<>>]

\* Bnd_Box.IsVoid, GetGap, SetGap, Enlarge
K_IsVoid(b) == b.void
K_GetGap(b) == b.gap
K_SetGap(b, g) == [b EXCEPT !.gap = g]
K_Enlarge(b, tol) == [b EXCEPT !.gap = Max2(b.gap, Abs(tol))]

\* Bnd_Box.Add(gp_Pnt): the first point makes the box that point
K_AddPoint(b, p) ==
    IF b.void THEN [b EXCEPT !.void = FALSE, !.lo = p, !.hi = p]
    ELSE [b EXCEPT !.lo = [i \in Axes |-> Min2(b.lo[i], p[i])],
                   !.hi = [i \in Axes |-> Max2(b.hi[i], p[i])]]

\* Bnd_Box.Add(Bnd_Box): a void box adds nothing, a void box becomes the other
K_AddBox(b, o) ==
    IF o.void THEN b
    ELSE IF b.void THEN o
    ELSE [void |-> FALSE,
          lo |-> [i \in Axes |-> Min2(b.lo[i], o.lo[i])],
          hi |-> [i \in Axes |-> Max2(b.hi[i], o.hi[i])],
          gap |-> Max2(b.gap, o.gap)]

\* Bnd_Box.CornerMin, CornerMax: the corner moved out by the gap; the kernel
\* raises on a void box
K_CornerMin(b) ==
    IF b.void THEN PyExc("Standard_ConstructionError")
    ELSE PyVal([i \in Axes |-> b.lo[i] - b.gap])
K_CornerMax(b) ==
    IF b.void THEN PyExc("Standard_ConstructionError")
    ELSE PyVal([i \in Axes |-> b.hi[i] + b.gap])

\* gp_Pnt.X(), Y(), Z() of a corner
Coord(corner, i) ==
    IF corner.kind = "value" THEN PyVal(<<corner.v[i]>>) ELSE corner

\* lines 701-707: BBox.is_void
is_void(b) == K_IsVoid(b)

\* lines 709-727: BBox.pmin, BBox.pmax
pmin(b) == IF is_void(b) THEN PyNone ELSE K_CornerMin(b)
pmax(b) == IF is_void(b) THEN PyNone ELSE K_CornerMax(b)

\* Bnd_Box.SquareExtent: 0 for a void box, else the squared diagonal of the
\* box with its gap
K_SquareExtent(b) ==
    IF b.void THEN 0
    ELSE LET d(i) == b.hi[i] - b.lo[i] + b.gap + b.gap
         IN d(1) * d(1) + d(2) * d(2) + d(3) * d(3)

\* math.sqrt, of which the model keeps the integer part
Sqrt(n) == CHOOSE r \in 0..n : r * r <= n /\ n < (r + 1) * (r + 1)

\* lines 789-803: BBox.gap, BBox.diagonal
gap(b) == PyVal(<<K_GetGap(b)>>)
diagonalMutVoidGuard(b) ==
    IF is_void(b) THEN PyNone ELSE PyVal(<<Sqrt(K_SquareExtent(b))>>)
diagonal(b) == PyVal(<<Sqrt(K_SquareExtent(b))>>)

\* lines 729-787: BBox.xmin ... BBox.zmax
xminMutNoGuard(b) == Coord(K_CornerMin(b), 1)
xmin(b) == IF is_void(b) THEN PyNone ELSE Coord(K_CornerMin(b), 1)
xmax(b) == IF is_void(b) THEN PyNone ELSE Coord(K_CornerMax(b), 1)
ymin(b) == IF is_void(b) THEN PyNone ELSE Coord(K_CornerMin(b), 2)
ymax(b) == IF is_void(b) THEN PyNone ELSE Coord(K_CornerMax(b), 2)
zmin(b) == IF is_void(b) THEN PyNone ELSE Coord(K_CornerMin(b), 3)
zmax(b) == IF is_void(b) THEN PyNone ELSE Coord(K_CornerMax(b), 3)

\* what a caller can pass to a BBox method: a box, a point, a line, a plane
\* or something else; geom is the box or, as a box, the point.  The boxes
\* passed are the void box and the boxes of the two extreme points, with
\* any gap
ArgKinds == {"box", "point", "line", "plane", "other"}
Arg(kind, geom) == [kind |-> kind, geom |-> geom]
PointArgs == {Arg("point", PointBox(p)) : p \in Points}
BoxArgs == {Arg("box", VoidBox)}
           \cup {Arg("box", [PointBox(p) EXCEPT !.gap = g]) :
                    p \in {Origin, FarCorner}, g \in Gaps}
OtherArgs(kind) == {Arg(k, VoidBox) : k \in ArgKinds \ {kind}}

\* isinstance(bbox, Bnd_Box), CheckGeom.to_point, is_line, is_plane
IsBndBoxMutAny(arg) == TRUE
IsBndBox(arg) == arg.kind = "box"
to_point(arg) == IF arg.kind = "point" THEN PyVal(arg.geom.lo) ELSE PyNone
is_line(arg) == arg.kind = "line"
is_plane(arg) == arg.kind = "plane"

NoBBoxCall ==
    [op |-> "none", arg |-> "-", raised |-> "-", ret |-> PyNone, kernel |-> <<>>]
BBoxRecord(op, arg, raised, ret, kernel) ==
    [op |-> op, arg |-> arg, raised |-> raised, ret |-> ret, kernel |-> kernel]

\* a method that raises TypeError on its argument: nothing else happens
BBoxTypeError(op, arg) ==
    /\ bboxCall' = BBoxRecord(op, arg.kind, "TypeError", PyNone, <<>>)
    /\ UNCHANGED <<bbox, bboxAdded>>

\* lines 805-813: BBox.set_gap
set_gap(g) ==
    /\ bbox' = K_SetGap(bbox, Abs(g))
    /\ bboxCall' = BBoxRecord("set_gap", "-", "-", PyNone, <<"SetGap">>)
    /\ UNCHANGED bboxAdded

\* lines 815-823: BBox.enlarge
enlarge(tol) ==
    /\ bbox' = K_Enlarge(bbox, tol)
    /\ bboxCall' = BBoxRecord("enlarge", "-", "-", PyNone, <<"Enlarge">>)
    /\ UNCHANGED bboxAdded

\* lines 825-839: BBox.add_box
add_box(arg) ==
    IF ~IsBndBox(arg) THEN BBoxTypeError("add_box", arg)
    ELSE /\ bbox' = K_AddBox(bbox, arg.geom)
         /\ bboxAdded' = (bboxAdded \/ ~arg.geom.void)
         /\ bboxCall' = BBoxRecord("add_box", arg.kind, "-", PyNone, <<"Add">>)

\* lines 841-856: BBox.add_pnt
add_pnt(arg) ==
    IF to_point(arg) = PyNone THEN BBoxTypeError("add_pnt", arg)
    ELSE /\ bbox' = K_AddPoint(bbox, to_point(arg).v)
         /\ bboxAdded' = TRUE
         /\ bboxCall' = BBoxRecord("add_pnt", arg.kind, "-", PyNone, <<"Add">>)

\* lines 858-866: BBox.add_shape; BRepBndLib.Add_ adds the box of the shape's
\* geometry, which is void for a shape without any
add_shape(shapeBox) ==
    /\ bbox' = K_AddBox(bbox, shapeBox)
    /\ bboxAdded' = (bboxAdded \/ ~shapeBox.void)
    /\ bboxCall' = BBoxRecord("add_shape", "shape", "-", PyNone, <<"BRepBndLib.Add_">>)

\* a query the kernel answers: the box is left as it is
BBoxQuery(op, arg, kernelCall, answer) ==
    /\ bboxCall' = BBoxRecord(op, arg.kind, "-", PyVal(<<answer>>), <<kernelCall>>)
    /\ UNCHANGED <<bbox, bboxAdded>>

\* lines 868-884: BBox.is_pnt_out
is_pnt_out(arg) ==
    IF to_point(arg) = PyNone THEN BBoxTypeError("is_pnt_out", arg)
    ELSE \E out \in BOOLEAN : BBoxQuery("is_pnt_out", arg, "IsOut", out)

\* lines 886-902: BBox.is_line_out
is_line_out(arg) ==
    IF ~is_line(arg) THEN BBoxTypeError("is_line_out", arg)
    ELSE \E out \in BOOLEAN : BBoxQuery("is_line_out", arg, "IsOut", out)

\* lines 904-920: BBox.is_pln_out
is_pln_out(arg) ==
    IF ~is_plane(arg) THEN BBoxTypeError("is_pln_out", arg)
    ELSE \E out \in BOOLEAN : BBoxQuery("is_pln_out", arg, "IsOut", out)

\* lines 922-937: BBox.is_box_out
is_box_out(arg) ==
    IF ~IsBndBox(arg) THEN BBoxTypeError("is_box_out", arg)
    ELSE \E out \in BOOLEAN : BBoxQuery("is_box_out", arg, "IsOut", out)

\* lines 939-954: BBox.distance
distance(arg) ==
    IF ~IsBndBox(arg) THEN BBoxTypeError("distance", arg)
    ELSE \E d \in Coords : BBoxQuery("distance", arg, "Distance", d)

\* the argument of a query: one of each kind
QueryArgs == {Arg("box", VoidBox), Arg("point", PointBox(Origin))}
             \cup OtherArgs("box")

SetGapCall == \E g \in -MaxGap..MaxGap : set_gap(g) /\ UNCHANGED otherThanBBox
EnlargeCall == \E tol \in -MaxGap..MaxGap : enlarge(tol) /\ UNCHANGED otherThanBBox
AddBoxCall == \E arg \in BoxArgs \cup OtherArgs("box") :
                 add_box(arg) /\ UNCHANGED otherThanBBox
AddPntCall == \E arg \in PointArgs \cup OtherArgs("point") :
                 add_pnt(arg) /\ UNCHANGED otherThanBBox
AddShapeCall == \E arg \in BoxArgs : add_shape(arg.geom) /\ UNCHANGED otherThanBBox
IsPntOutCall == \E arg \in QueryArgs : is_pnt_out(arg) /\ UNCHANGED otherThanBBox
IsLineOutCall == \E arg \in QueryArgs : is_line_out(arg) /\ UNCHANGED otherThanBBox
IsPlnOutCall == \E arg \in QueryArgs : is_pln_out(arg) /\ UNCHANGED otherThanBBox
IsBoxOutCall == \E arg \in QueryArgs : is_box_out(arg) /\ UNCHANGED otherThanBBox
DistanceCall == \E arg \in QueryArgs : distance(arg) /\ UNCHANGED otherThanBBox

(***************************************************************************)
(* Claims about BBox                                                       *)
(***************************************************************************)
\* C10: a bounding box to which no geometry has been added reports is_void,
\* and whenever is_void is true each of pmin, pmax, xmin, xmax, ymin, ymax,
\* zmin and zmax is None: none raises and none returns a coordinate.
C10_VoidAccessors ==
    /\ ~bboxAdded => is_void(bbox)
    /\ is_void(bbox)
         => \A r \in {pmin(bbox), pmax(bbox), xmin(bbox), xmax(bbox), ymin(bbox),
                      ymax(bbox), zmin(bbox), zmax(bbox)} : r.kind = "None"

C10_Witness ==
    /\ ~bboxAdded
    /\ is_void(bbox)
    /\ bbox.gap = MaxGap
    /\ bboxCall.op = "add_box"
    /\ bboxCall.raised = "-"
    /\ xmin(bbox) = PyNone

\* C11, as stated: a bounding box to which no geometry has been added
\* reports None for gap and for diagonal, as it does for its corners.
C11_GapDiagonalVoid ==
    ~bboxAdded => (gap(bbox) = PyNone /\ diagonal(bbox) = PyNone)

\* C11, amended: gap and diagonal have no void guard.  On a box to which no
\* geometry has been added, and on any void box, gap is the number the kernel
\* holds as the gap (never negative, 0 until set_gap or enlarge changes it)
\* and diagonal is the number 0; neither is None and neither raises.
C11_GapDiagonalNumbers ==
    (~bboxAdded \/ is_void(bbox))
        => /\ gap(bbox).kind = "value"
           /\ gap(bbox).v = <<K_GetGap(bbox)>>
           /\ gap(bbox).v[1] \in Gaps
           /\ diagonal(bbox) = PyVal(<<0>>)

C11_Witness ==
    /\ ~bboxAdded
    /\ is_void(bbox)
    /\ bboxCall.op = "set_gap"
    /\ gap(bbox) = PyVal(<<MaxGap>>)
    /\ diagonal(bbox) = PyVal(<<0>>)
    /\ pmin(bbox) = PyNone

\* C14: add_box, is_box_out and distance given an argument that is no box,
\* is_line_out given one that is no line and is_pln_out given one that is no
\* plane raise TypeError without having made any kernel call, and the box
\* keeps its corners, its void flag and its gap.
WrongKind ==
    [add_box |-> "box", is_box_out |-> "box", distance |-> "box",
     is_line_out |-> "line", is_pln_out |-> "plane"]
C14_TypeErrorState ==
    (bboxCall.op \in DOMAIN WrongKind /\ bboxCall.arg # WrongKind[bboxCall.op])
        => /\ bboxCall.raised = "TypeError"
           /\ bboxCall.kernel = <<>>
           /\ bboxCall.ret = PyNone
C14_TypeErrorStep ==
    (bboxCall'.op \in DOMAIN WrongKind /\ bboxCall'.arg # WrongKind[bboxCall'.op])
        => /\ bbox' = bbox
           /\ is_void(bbox') = is_void(bbox)
           /\ gap(bbox') = gap(bbox)
           /\ bboxAdded' = bboxAdded
C14_WrongKindAborts == []C14_TypeErrorState /\ [][C14_TypeErrorStep]_vars

C14_Witness ==
    /\ bboxCall.op = "add_box"
    /\ bboxCall.arg = "point"
    /\ bboxCall.raised = "TypeError"
    /\ ~is_void(bbox)
    /\ bbox.lo # bbox.hi
    /\ bbox.gap = MaxGap

(***************************************************************************)
(* Specifications: one per component, the other components stay idle       *)
(***************************************************************************)
\* split_part on any two part objects, whose shapes may be null
InitSplit ==
    /\ objShape \in [Objs -> Handles]
    /\ splitCall = NoSplitCall
    /\ active = None
    /\ assyParts = NoAssyParts
    /\ partShape = NoPartShape
    /\ fixCall = NoFixCall
    /\ shapeIn = NoShapeIn
    /\ shapeCall = NoShapeCall
    /\ bbox = VoidBox
    /\ bboxAdded = FALSE
    /\ bboxCall = NoBBoxCall
    /\ explored = NoExplored
    /\ subCall = NoSubCall

NextSplit == SplitPart

SpecSplit == InitSplit /\ [][NextSplit]_vars

\* FixAssembly: the fuselage is the root assembly and holds every part, the
\* wing is a sub-assembly of it
InitFix ==
    /\ objShape = NoObjShape
    /\ splitCall = NoSplitCall
    /\ active \in Assys \cup {None}
    /\ assyParts \in {f \in [Assys -> SUBSET Parts] : f["fuselage"] = Parts}
    /\ partShape \in [Parts -> PartShapes]
    /\ fixCall = NoFixCall
    /\ shapeIn = NoShapeIn
    /\ shapeCall = NoShapeCall
    /\ bbox = VoidBox
    /\ bboxAdded = FALSE
    /\ bboxCall = NoBBoxCall
    /\ explored = NoExplored
    /\ subCall = NoSubCall

NextFix == FixAssemblyCall \/ LimitToleranceCall \/ SetToleranceCall

SpecFix == InitFix /\ [][NextFix]_vars

\* Shape wrappers: the constructors and Shape.wrap on any kernel handle
InitShape ==
    /\ objShape = NoObjShape
    /\ splitCall = NoSplitCall
    /\ active = None
    /\ assyParts = NoAssyParts
    /\ partShape = NoPartShape
    /\ fixCall = NoFixCall
    /\ shapeIn \in {[a |-> h, b |-> h] : h \in TopoHandles}
    /\ shapeCall = NoShapeCall
    /\ bbox = VoidBox
    /\ bboxAdded = FALSE
    /\ bboxCall = NoBBoxCall
    /\ explored = NoExplored
    /\ subCall = NoSubCall

NextShape == ConstructCall \/ WrapCall

SpecShape == InitShape /\ [][NextShape]_vars

\* Shape wrappers: two kernel handles wrapped and compared
InitSame ==
    /\ objShape = NoObjShape
    /\ splitCall = NoSplitCall
    /\ active = None
    /\ assyParts = NoAssyParts
    /\ partShape = NoPartShape
    /\ fixCall = NoFixCall
    /\ shapeIn \in [a : TopoHandles, b : TopoHandles]
    /\ shapeCall = NoShapeCall
    /\ bbox = VoidBox
    /\ bboxAdded = FALSE
    /\ bboxCall = NoBBoxCall
    /\ explored = NoExplored
    /\ subCall = NoSubCall

NextSame == WrapTwiceCall

SpecSame == InitSame /\ [][NextSame]_vars

\* BBox: a box as BBox() constructs it
InitBBox ==
    /\ objShape = NoObjShape
    /\ splitCall = NoSplitCall
    /\ active = None
    /\ assyParts = NoAssyParts
    /\ partShape = NoPartShape
    /\ fixCall = NoFixCall
    /\ shapeIn = NoShapeIn
    /\ shapeCall = NoShapeCall
    /\ bbox = VoidBox
    /\ bboxAdded = FALSE
    /\ bboxCall = NoBBoxCall
    /\ explored = NoExplored
    /\ subCall = NoSubCall

NextBBox ==
    \/ SetGapCall \/ EnlargeCall \/ AddBoxCall \/ AddPntCall \/ AddShapeCall
    \/ IsPntOutCall \/ IsLineOutCall \/ IsPlnOutCall \/ IsBoxOutCall
    \/ DistanceCall

SpecBBox == InitBBox /\ [][NextBBox]_vars

\* Sub-shape accessors: any sequence of sub-shapes of one type an explorer
\* can yield
InitSub ==
    /\ objShape = NoObjShape
    /\ splitCall = NoSplitCall
    /\ active = None
    /\ assyParts = NoAssyParts
    /\ partShape = NoPartShape
    /\ fixCall = NoFixCall
    /\ shapeIn = NoShapeIn
    /\ shapeCall = NoShapeCall
    /\ bbox = VoidBox
    /\ bboxAdded = FALSE
    /\ bboxCall = NoBBoxCall
    /\ explored \in UNION {[1..n -> ExploredHandles(type)] :
                              n \in 0..MaxExplore, type \in ExplorerTypes}
    /\ subCall = NoSubCall

NextSub == GetShapesCall

SpecSub == InitSub /\ [][NextSub]_vars

=============================================================================
